---- MODULE Spec2Model ----
(***************************************************************************)
(* Model of the multi-distributor transaction dispatcher:                  *)
(*   - DistributorQueueService and its file-local TransactionQueue         *)
(*     (src/src/blockchain/services/distributor-queue.service.ts),         *)
(*   - the retrying TransactionQueue                                       *)
(*     (src/src/blockchain/services/transaction-queue.ts),                 *)
(*   - TransactionSenderService (src/unnamed/part_000).                    *)
(* JavaScript runs one callback at a time: an action is the code that runs *)
(* from one resumption of an async function to its next await.             *)
(***************************************************************************)
EXTENDS Integers, Sequences, FiniteSets, TLC

\* ---------------------------------------------------------------- bounds
\* Operations ever handed to Submit in one behaviour.
MaxOps == 3
\* Length of the slice Submit takes from the pending buffer (100 in the
\* source, distributor-queue.service.ts:216), scaled down.
BatchLimit == 2
\* Distributor ids known upstream: 1..MaxDist.
MaxDist == 2
\* Registry states drawn for the selection function: queues and their sizes.
MaxSelQueues == 3
MaxSelSize == 2
\* Operations ever appended to the sender's queue in one behaviour.
MaxSendOps == 2
\* The history counters of the sender stop counting here.
HistCap == 2

\* Length of the slice the classifier is applied to.
MaxClassify == 5

\* TransactionQueue.MAX_ITEM_RETRIES, 10 in the source, scaled down
MAX_ITEM_RETRIES == 2

\* ------------------------------------------------------ program constants
\* MAX_OPERATION_RETRIES of sendTransactions
MAX_OPERATION_RETRIES == 5
\* the bound of badResponseRetry in sendTransactions
MAX_BAD_RESPONSE_RETRIES == 3
\* TransactionSenderService.SUPPLY_REFILL_LIMIT, 900_000_000_000 in the
\* source, here in units of 10^9: amounts are only compared with it
SUPPLY_REFILL_LIMIT == 900

\* ---------------------------------------------------------------- helpers
Min(a, b) == IF a <= b THEN a ELSE b

SeqToSet(s) == {s[i] : i \in DOMAIN s}

\* Array.prototype.slice(0, n) and slice(n)
Take(s, n) == SubSeq(s, 1, Min(n, Len(s)))
Drop(s, n) == IF n >= Len(s) THEN <<>> ELSE SubSeq(s, n + 1, Len(s))

\* the sequences without repetition over S, of every length
RECURSIVE Perms(_)
Perms(S) ==
    IF S = {} THEN {<<>>}
    ELSE UNION {{<<x>> \o p : p \in Perms(S \ {x})} : x \in S}

Arrangements(S) == UNION {Perms(T) : T \in SUBSET S}

Ops == 1..MaxOps
DistIds == 1..MaxDist

VARIABLES
    \* DistributorQueueService
    queues,             \* Map<number, TransactionQueue>: its keys in insertion order
    pendingOperations,  \* QueueTransaction[]
    isProcessing,       \* boolean
    \* the file-local TransactionQueue held in the map under each key
    qItems,             \* id -> queue: QueueItem[]
    qProc,              \* id -> processing
    \* the Submit call that holds isProcessing, suspended inside process()
    holder,
    \* environment and history
    nextOp,             \* operations handed to Submit so far
    attempted,          \* op -> included in some gateway call
    nSubmitted,         \* op -> gateway submissions with it that returned a hash
    nDropped,           \* op -> times its batch was given up after a failure
    nInvalid,           \* op -> times it was classified invalid
    lastReturn,         \* how the latest call of Submit returned
    lastChoice,         \* the latest queue selection followed by an enqueue
    call,               \* the latest call of Submit that entered the loop
    \* TransactionQueue of transaction-queue.ts, made by createQueue
    tQueue,             \* queue: QueueItem[]
    tProcessing,        \* processing
    tActive,            \* active
    tLoops,             \* calls of process() that have not returned
    worker,             \* where process() is suspended, and its item
    \* sendTransactions, the queue's processCallback
    sender,             \* where it is suspended, and its locals
    \* the QueueTransaction objects
    amount,             \* op -> amount
    opType,             \* op -> type
    movedToEnd,         \* op -> movedToEnd
    \* DistributorQueueService: the issuers
    issuers,            \* this.issuers: which Keypair[] array the field refers to
    keypairArrays,      \* array -> the Keypair[] array's elements
    settings,           \* the settings row: issuerSecret, and whether a periodic
                        \* refresh has completed since it was last written
    initPc,             \* where initialize() is
    itemIssuers,        \* op -> the array its QueueItem's issuers refers to
    \* audit
    lastRefresh,        \* the rows and the map's keys of the latest logged refresh
    lastError           \* the error of the latest logged classification

regVars == <<queues, pendingOperations, isProcessing, qItems, qProc, holder>>
histVars == <<nextOp, attempted, nSubmitted, nDropped, nInvalid>>
logVars == <<lastReturn, lastChoice, call>>
sndVars == <<tQueue, tProcessing, tActive, tLoops, worker, sender, amount, opType, movedToEnd>>
issVars == <<issuers, keypairArrays, settings, initPc>>
audVars == <<lastRefresh, lastError>>
extVars == <<issVars, itemIssuers, audVars>>
vars == <<regVars, histVars, logVars, sndVars, extVars>>

\* ------------------------------------------------------------ audit records
\* kind: how it returned; raised: an error reached the caller; empty: the
\* pending buffer was empty at that moment.
NoReturn == [kind |-> "none", raised |-> FALSE, empty |-> TRUE]
NoChoice == [seen |-> FALSE, chosen |-> 0, order |-> <<>>, sizes |-> <<>>]
NoItem == [transactions |-> <<>>]
\* ops: the operations the call was given; solo: the pending buffer was empty
\* when it entered and no other call has pushed operations since; enq: the
\* batches its loop has handed to queue.append, each with the key of the
\* queue chosen; state: "running", or how it returned. Only a solo call is
\* followed: the others keep the record NoCall.
NoCall == [ops |-> <<>>, solo |-> FALSE, enq |-> <<>>, state |-> "none"]
\* pc: where the call is suspended; qid: the key its queue was chosen under;
\* evicted: that queue has been deleted from the map since; own: the items
\* it then held.
Idle == [pc |-> "none", qid |-> 0, item |-> NoItem, evicted |-> FALSE, own |-> <<>>]

Zero == [o \in Ops |-> 0]
Count(f, S) == [o \in DOMAIN f |-> IF o \in S THEN f[o] + 1 ELSE f[o]]
Mark(f, S) == [o \in DOMAIN f |-> f[o] \/ o \in S]

\* -------------------------------------------- sender: records and start
WorkerIdle == [pc |-> "idle", item |-> [transactions |-> <<>>, retryCount |-> 0]]
\* pc: the await sendTransactions is suspended at, or "returned" with its
\* result in `success` until the awaiting callback resumes; left: transactionsLeft;
\* current: currentBatch; orig: originalBatchSize; bad: badResponseRetry;
\* opr: operationErrorRetry; input, sent, invalid: the operations this call
\* was given, has had accepted by the gateway, has classified invalid.
\* History of the call: round: the outer iteration it is in; start, startTail:
\* the lengths of transactionsLeft and of tail when that iteration began;
\* streak: the retry answers since the last removal or accepted submission
\* of the slice; tail: the operations pushed onto transactionsLeft, in order;
\* backoffs: the seconds of the sleeps after retry answers in this iteration;
\* promoted: the operations found already moved and made invalid instead.
SenderOff == [pc |-> "off", left |-> <<>>, current |-> <<>>, orig |-> 0, bad |-> 0,
              opr |-> 0, input |-> {}, sent |-> {}, invalid |-> {}, success |-> FALSE,
              round |-> 0, start |-> 0, startTail |-> 0, streak |-> 0, tail |-> <<>>,
              backoffs |-> <<>>, promoted |-> {}]

\* the values of settings.issuerSecret
IssuerSecrets == {"", "malformed", "k1", "k2"}
\* the Keypair[] arrays: 0 is the array of the field initializer, 1 the one
\* updateIssuers makes
Arrays == 0..1
NoArray == -1
NoRefresh == [seen |-> FALSE, secrets |-> <<>>, ids |-> <<>>, before |-> <<>>]
NoError == [kind |-> "none", ops |-> <<>>]

\* private issuers: Keypair[] = [], before initialize() has read anything
ExtInit ==
    /\ issuers = 0
    /\ keypairArrays = [a \in Arrays |-> <<>>]
    /\ settings = [issuerSecret |-> "k1", refreshed |-> FALSE]
    /\ initPc = "queues"
    /\ itemIssuers = [o \in Ops |-> NoArray]
    /\ lastRefresh = NoRefresh
    /\ lastError = NoError

SenderInit ==
    /\ tQueue = <<>>
    /\ tProcessing = FALSE
    /\ tLoops = 0
    /\ tActive = TRUE
    /\ worker = WorkerIdle
    /\ sender = SenderOff
    /\ amount = [o \in Ops |-> 0]
    /\ opType = [o \in Ops |-> "payment"]
    /\ movedToEnd = [o \in Ops |-> FALSE]

\* --------------------------------------------------- DistributorQueueService
\* getSmallestQueue's loop over this.queues.entries(): i is the position in
\* insertion order, minIdx = 0 stands for minQueue = null, minSize = Infinity.
RECURSIVE ScanQueues(_, _, _, _, _)
ScanQueues(qs, items, i, minIdx, minSize) ==
    IF i > Len(qs) THEN minIdx
    ELSE IF minIdx = 0 \/ Len(items[qs[i]]) < minSize
         THEN ScanQueues(qs, items, i + 1, i, Len(items[qs[i]]))
         ELSE ScanQueues(qs, items, i + 1, minIdx, minSize)

\* the same loop with <= for <: the last of the smallest queues wins
RECURSIVE ScanQueuesLe(_, _, _, _, _)
ScanQueuesLe(qs, items, i, minIdx, minSize) ==
    IF i > Len(qs) THEN minIdx
    ELSE IF minIdx = 0 \/ Len(items[qs[i]]) <= minSize
         THEN ScanQueuesLe(qs, items, i + 1, i, Len(items[qs[i]]))
         ELSE ScanQueuesLe(qs, items, i + 1, minIdx, minSize)

GetSmallestQueueLastTie(qs, items) == ScanQueuesLe(qs, items, 1, 0, 0)

\* the same loop with > for <: the largest queue wins
RECURSIVE ScanQueuesGt(_, _, _, _, _)
ScanQueuesGt(qs, items, i, minIdx, minSize) ==
    IF i > Len(qs) THEN minIdx
    ELSE IF minIdx = 0 \/ Len(items[qs[i]]) > minSize
         THEN ScanQueuesGt(qs, items, i + 1, i, Len(items[qs[i]]))
         ELSE ScanQueuesGt(qs, items, i + 1, minIdx, minSize)

GetSmallestQueueLargest(qs, items) == ScanQueuesGt(qs, items, 1, 0, 0)

\* The position in qs of the queue returned; 0 when it throws
\* 'No queues available'.
GetSmallestQueue(qs, items) == ScanQueues(qs, items, 1, 0, 0)

\* catch (error) { this.logger.error(...) } in append: TRUE iff the error
\* reaches the caller of Submit.
CatchRethrows == FALSE

\* What the catch block leaves in the pending buffer, given the slice that
\* was spliced off and what stayed behind.
AfterCatch(slice, rest) == rest

ChoiceOf(qs, items, k) ==
    [seen |-> TRUE, chosen |-> qs[k], order |-> qs,
     sizes |-> [i \in DOMAIN qs |-> Len(items[qs[i]])]]

\* the same loop with splice(0) for splice(0, 100): one batch takes all
RECURSIVE SubmitLoopWhole(_, _, _, _)
SubmitLoopWhole(qs, pend, items, proc) ==
    IF pend = <<>>
    THEN [pc |-> "return", threw |-> FALSE, pend |-> pend, items |-> items,
          proc |-> proc, qid |-> 0, item |-> NoItem, enq |-> <<>>]
    ELSE LET batch == pend
             rest == <<>>
             k == GetSmallestQueue(qs, items)
         IN IF k = 0
            THEN [pc |-> "return", threw |-> TRUE, pend |-> AfterCatch(batch, rest),
                  items |-> items, proc |-> proc, qid |-> 0, item |-> NoItem,
                  enq |-> <<>>]
            ELSE LET q == qs[k]
                     pushed == Append(items[q], [transactions |-> batch])
                     entry == [q |-> q, transactions |-> batch]
                 IN IF proc[q]
                    THEN LET r == SubmitLoopWhole(qs, rest, [items EXCEPT ![q] = pushed], proc)
                         IN [r EXCEPT !.enq = <<entry>> \o @]
                    ELSE [pc |-> "gateway", threw |-> FALSE, pend |-> rest,
                          items |-> [items EXCEPT ![q] = Tail(pushed)],
                          proc |-> [proc EXCEPT ![q] = TRUE], qid |-> q,
                          item |-> Head(pushed), enq |-> <<entry>>]

\* The while loop of append from its top up to the next suspension: either
\* it returns (through finally) or it is suspended in the gateway call that
\* process() of the chosen queue makes.
RECURSIVE SubmitLoop(_, _, _, _)
SubmitLoop(qs, pend, items, proc) ==
    IF pend = <<>>
    THEN [pc |-> "return", threw |-> FALSE, pend |-> pend, items |-> items,
          proc |-> proc, qid |-> 0, item |-> NoItem, enq |-> <<>>]
    ELSE LET batch == Take(pend, BatchLimit)
             rest == Drop(pend, BatchLimit)
             k == GetSmallestQueue(qs, items)
         IN IF k = 0
            THEN [pc |-> "return", threw |-> TRUE, pend |-> AfterCatch(batch, rest),
                  items |-> items, proc |-> proc, qid |-> 0, item |-> NoItem,
                  enq |-> <<>>]
            ELSE LET q == qs[k]
                     pushed == Append(items[q], [transactions |-> batch])
                     entry == [q |-> q, transactions |-> batch]
                 IN IF proc[q]
                    THEN LET r == SubmitLoop(qs, rest, [items EXCEPT ![q] = pushed], proc)
                         IN [r EXCEPT !.enq = <<entry>> \o @]
                    ELSE [pc |-> "gateway", threw |-> FALSE, pend |-> rest,
                          items |-> [items EXCEPT ![q] = Tail(pushed)],
                          proc |-> [proc EXCEPT ![q] = TRUE], qid |-> q,
                          item |-> Head(pushed), enq |-> <<entry>>]

\* issuers: this.issuers in each item handed to queue.append
Carry(f, enq, ref) ==
    [o \in DOMAIN f |-> IF \E i \in DOMAIN enq : o \in SeqToSet(enq[i].transactions)
                         THEN ref ELSE f[o]]

\* Apply the outcome r of SubmitLoop.
Resume(r) ==
    /\ pendingOperations' = r.pend
    /\ itemIssuers' = Carry(itemIssuers, r.enq, issuers)
    /\ qItems' = r.items
    /\ qProc' = r.proc
    /\ attempted' = IF r.pc = "gateway"
                    THEN Mark(attempted, SeqToSet(r.item.transactions))
                    ELSE attempted
    /\ IF r.pc = "gateway"
       THEN /\ holder' = [pc |-> "gateway", qid |-> r.qid, item |-> r.item,
                          evicted |-> FALSE, own |-> <<>>]
            /\ isProcessing' = TRUE
            /\ lastReturn' = lastReturn
       ELSE /\ holder' = Idle
            /\ isProcessing' = FALSE
            /\ lastReturn' = [kind |-> IF r.threw THEN "caught" ELSE "done",
                              raised |-> r.threw /\ CatchRethrows,
                              empty |-> r.pend = <<>>]

NewOps(n) == [i \in 1..n |-> nextOp + i]

\* The record of call c after its loop ran to the outcome r.
Logged(c, r) ==
    IF ~c.solo THEN NoCall
    ELSE [c EXCEPT !.enq = @ \o r.enq,
                   !.state = IF r.pc = "gateway" THEN "running"
                             ELSE IF r.threw THEN "caught" ELSE "done"]

\* append(operations) called while another call holds isProcessing
SubmitBusy(n) ==
    /\ isProcessing
    /\ nextOp + n <= MaxOps
    /\ nextOp' = nextOp + n
    /\ pendingOperations' = pendingOperations \o NewOps(n)
    /\ lastReturn' = [kind |-> "busy", raised |-> FALSE,
                      empty |-> pendingOperations \o NewOps(n) = <<>>]
    /\ call' = IF n = 0 THEN call ELSE NoCall
    /\ UNCHANGED <<queues, isProcessing, qItems, qProc, holder>>
    /\ UNCHANGED <<attempted, nSubmitted, nDropped, nInvalid, lastChoice, sndVars, extVars>>

\* append(operations) called while isProcessing is false
SubmitEnter(n) ==
    /\ ~isProcessing
    /\ nextOp + n <= MaxOps
    /\ nextOp' = nextOp + n
    /\ LET r == SubmitLoop(queues, pendingOperations \o NewOps(n), qItems, qProc)
       IN /\ Resume(r)
          /\ call' = Logged([ops |-> NewOps(n), solo |-> pendingOperations = <<>>,
                             enq |-> <<>>, state |-> "running"], r)
    /\ UNCHANGED <<queues, nSubmitted, nDropped, nInvalid, lastChoice, sndVars, issVars, audVars>>

\* --------------------------------------------- file-local TransactionQueue
\* sendMultipleTokens returns a hash or throws; the catch logs; then the
\* worker sleeps 100 ms.
GatewayReturn(ok) ==
    /\ holder.pc = "gateway"
    /\ holder' = [holder EXCEPT !.pc = "sleep"]
    /\ nSubmitted' = IF ok THEN Count(nSubmitted, SeqToSet(holder.item.transactions))
                     ELSE nSubmitted
    /\ nDropped' = IF ok THEN nDropped
                   ELSE Count(nDropped, SeqToSet(holder.item.transactions))
    /\ UNCHANGED <<queues, pendingOperations, isProcessing, qItems, qProc>>
    /\ UNCHANGED <<nextOp, attempted, nInvalid, logVars, sndVars, extVars>>

\* the items of the queue the holder's worker drains
HolderItems == IF holder.evicted THEN holder.own ELSE qItems[holder.qid]

\* The sleep ends: process() tests queue.length again; with the queue empty
\* it clears processing and returns into append's loop.
WorkerWake ==
    /\ holder.pc = "sleep"
    /\ IF HolderItems # <<>>
       THEN /\ holder' = [holder EXCEPT !.pc = "gateway", !.item = Head(HolderItems),
                                        !.own = IF holder.evicted THEN Tail(@) ELSE @]
            /\ qItems' = IF holder.evicted THEN qItems
                         ELSE [qItems EXCEPT ![holder.qid] = Tail(@)]
            /\ attempted' = Mark(attempted, SeqToSet(Head(HolderItems).transactions))
            /\ UNCHANGED <<pendingOperations, isProcessing, qProc, lastReturn, call, itemIssuers>>
       ELSE LET r == SubmitLoop(queues, pendingOperations, qItems,
                                IF holder.evicted THEN qProc
                                ELSE [qProc EXCEPT ![holder.qid] = FALSE])
            IN /\ Resume(r)
               /\ call' = Logged(call, r)
    /\ UNCHANGED <<queues, nextOp, nSubmitted, nDropped, nInvalid, lastChoice, sndVars, issVars, audVars>>

\* ------------------------------------------------------------ updateQueues
Secrets == {"valid", "empty", "malformed"}

\* the subsequences of s
RECURSIVE SubSeqs(_)
SubSeqs(s) ==
    IF s = <<>> THEN {<<>>}
    ELSE LET r == SubSeqs(Tail(s)) IN r \cup {<<Head(s)>> \o t : t \in r}

\* prisma.distributor.findMany({where: {isActive: true}}) with the map's
\* keys being qs: <<secrets, ids>>, the rows' secretKey and id columns. The
\* rows of ids that have a queue are only tested with includes() and has(),
\* so they are drawn first, in the map's order and with valid secrets; the
\* rows of the other ids are drawn in every order with every secret.
Upstream(qs) ==
    UNION {UNION {{<<[i \in 1..Len(old) + Len(new) |->
                        IF i <= Len(old) THEN "valid" ELSE sec[i - Len(old)]],
                     old \o new>> : sec \in [1..Len(new) -> Secrets]}
                  : new \in Arrangements(DistIds \ SeqToSet(qs))}
           : old \in SubSeqs(qs)}

\* the same loop when the error of Keypair.fromSecret is not caught: the
\* loop ends at the first malformed secret
RECURSIVE AddQueuesAbort(_, _, _, _)
AddQueuesAbort(secrets, ids, i, qs) ==
    IF i > Len(ids) THEN qs
    ELSE IF ids[i] \in SeqToSet(qs)
         THEN AddQueuesAbort(secrets, ids, i + 1, qs)
         ELSE IF secrets[i] = "empty"
              THEN AddQueuesAbort(secrets, ids, i + 1, qs)
              ELSE IF secrets[i] = "malformed"
                   THEN qs
                   ELSE AddQueuesAbort(secrets, ids, i + 1, Append(qs, ids[i]))

\* the 'Add new queues' loop from row i on: the keys of the map
RECURSIVE AddQueues(_, _, _, _)
AddQueues(secrets, ids, i, qs) ==
    IF i > Len(ids) THEN qs
    ELSE IF ids[i] \in SeqToSet(qs)
         THEN AddQueues(secrets, ids, i + 1, qs)
         ELSE IF secrets[i] = "empty"
              THEN AddQueues(secrets, ids, i + 1, qs)
              ELSE IF secrets[i] = "malformed"
                   THEN AddQueues(secrets, ids, i + 1, qs)
                   ELSE AddQueues(secrets, ids, i + 1, Append(qs, ids[i]))

\* no queue is deleted
RemoveNothing(qs, ids) == qs

\* the 'Remove queues' loop: Map.delete keeps the order of the others
RemoveQueues(qs, ids) == SelectSeq(qs, LAMBDA id : id \in SeqToSet(ids))

\* What updateQueues does to the map once findMany has returned the rows up.
ApplyUpstream(up) ==
    LET secrets == up[1]
        ids == up[2]
        kept == RemoveQueues(queues, ids)
        gone == SeqToSet(queues) \ SeqToSet(kept)
    IN /\ queues' = AddQueues(secrets, ids, 1, kept)
       /\ qItems' = [q \in DistIds |-> IF q \in gone THEN <<>> ELSE qItems[q]]
       /\ qProc' = [q \in DistIds |-> IF q \in gone THEN FALSE ELSE qProc[q]]
       /\ holder' = IF holder.pc # "none" /\ ~holder.evicted /\ holder.qid \in gone
                    THEN [holder EXCEPT !.evicted = TRUE, !.own = qItems[holder.qid]]
                    ELSE holder
       /\ UNCHANGED <<pendingOperations, isProcessing, histVars, logVars, sndVars>>
       /\ UNCHANGED <<issuers, keypairArrays, itemIssuers, lastError>>

\* updateQueues resumes with the rows of findMany
UpdateQueues(up) ==
    /\ ApplyUpstream(up)
    /\ UNCHANGED <<settings, initPc, lastRefresh>>

\* findMany with the map's keys being qs, the rows of the ids that have a
\* queue drawn with every secret too
UpstreamAny(qs) ==
    UNION {UNION {{<<sec, old \o new>> : sec \in [1..Len(old) + Len(new) -> Secrets]}
                  : new \in Arrangements(DistIds \ SeqToSet(qs))}
           : old \in SubSeqs(qs)}

\* updateQueues resumes with the rows of findMany; the rows and the keys the
\* map had are logged
RefreshLogged(up) ==
    /\ ApplyUpstream(up)
    /\ lastRefresh' = [seen |-> TRUE, secrets |-> up[1], ids |-> up[2], before |-> queues]
    /\ UNCHANGED <<settings, initPc>>

\* ----------------------------------------------- initialize, updateIssuers
\* [Keypair.fromSecret(issuerSecret)], or [] for an absent, blank or
\* malformed secret
LoadIssuers(issuerSecret) ==
    IF issuerSecret \in {"", "malformed"} THEN <<>> ELSE <<issuerSecret>>

\* the array this.issuers refers to is emptied and refilled
AssignInPlace(ref, arrays, keys) ==
    [ref |-> ref, arrays |-> [arrays EXCEPT ![ref] = keys]]

\* this.issuers = [...]: the field refers to a new array
AssignIssuers(ref, arrays, keys) ==
    [ref |-> ref + 1, arrays |-> [arrays EXCEPT ![ref + 1] = keys]]

\* initialize(): the first updateQueues resumes with the rows of findMany
InitializeQueues(up) ==
    /\ initPc = "queues"
    /\ ApplyUpstream(up)
    /\ initPc' = "issuers"
    /\ UNCHANGED <<settings, lastRefresh>>

\* initialize(): updateIssuers resumes with the settings row, assigns
\* this.issuers, and initialize sets the interval of the periodic refresh
UpdateIssuers ==
    /\ initPc = "issuers"
    /\ LET a == AssignIssuers(issuers, keypairArrays, LoadIssuers(settings.issuerSecret))
       IN /\ issuers' = a.ref
          /\ keypairArrays' = a.arrays
    /\ initPc' = "done"
    /\ UNCHANGED <<settings, itemIssuers, audVars>>
    /\ UNCHANGED <<regVars, histVars, logVars, sndVars>>

\* the interval fires and updateQueues resumes with the rows of findMany
PeriodicRefresh(up) ==
    /\ initPc = "done"
    /\ ApplyUpstream(up)
    /\ settings' = [settings EXCEPT !.refreshed = TRUE]
    /\ UNCHANGED <<initPc, lastRefresh>>

\* an administrator writes another issuer secret into the settings row
SettingsChange(issuerSecret) ==
    /\ issuerSecret # settings.issuerSecret
    /\ settings' = [issuerSecret |-> issuerSecret, refreshed |-> FALSE]
    /\ UNCHANGED <<issuers, keypairArrays, initPc, itemIssuers, audVars>>
    /\ UNCHANGED <<regVars, histVars, logVars, sndVars>>

\* ------------------------------------------------------------ specification
Init ==
    /\ queues = <<>>
    /\ pendingOperations = <<>>
    /\ isProcessing = FALSE
    /\ qItems = [q \in DistIds |-> <<>>]
    /\ qProc = [q \in DistIds |-> FALSE]
    /\ holder = Idle
    /\ nextOp = 0
    /\ attempted = [o \in Ops |-> FALSE]
    /\ nSubmitted = Zero
    /\ nDropped = Zero
    /\ nInvalid = Zero
    /\ lastReturn = NoReturn
    /\ lastChoice = NoChoice
    /\ call = NoCall
    /\ SenderInit
    /\ ExtInit

Next ==
    \/ \E n \in 0..MaxOps : SubmitEnter(n)
    \/ \E n \in 0..MaxOps : SubmitBusy(n)
    \/ \E ok \in BOOLEAN : GatewayReturn(ok)
    \/ WorkerWake
    \/ \E up \in Upstream(queues) : UpdateQueues(up)

SpecRegistry == Init /\ [][Next]_vars

\* The registry with every refresh logged.
NextRefresh ==
    \/ \E n \in 0..MaxOps : SubmitEnter(n)
    \/ \E n \in 0..MaxOps : SubmitBusy(n)
    \/ \E ok \in BOOLEAN : GatewayReturn(ok)
    \/ WorkerWake
    \/ \E up \in UpstreamAny(queues) : RefreshLogged(up)

SpecRefresh == Init /\ [][NextRefresh]_vars

\* The registry from its construction, with initialize() and the settings row.
NextIssuers ==
    \/ \E n \in 0..MaxOps : SubmitEnter(n)
    \/ \E n \in 0..MaxOps : SubmitBusy(n)
    \/ \E ok \in BOOLEAN : GatewayReturn(ok)
    \/ WorkerWake
    \/ \E up \in Upstream(queues) : InitializeQueues(up)
    \/ UpdateIssuers
    \/ \E up \in Upstream(queues) : PeriodicRefresh(up)
    \/ \E issuerSecret \in IssuerSecrets : SettingsChange(issuerSecret)

SpecIssuers == Init /\ [][NextIssuers]_vars

\* The registry under the assumptions of the liveness claims: Submit is
\* called only while the map holds a queue, no refresh empties the map, every
\* gateway call returns and every timer fires.
NextLive ==
    \/ \E n \in 0..MaxOps : queues # <<>> /\ SubmitEnter(n)
    \/ \E n \in 0..MaxOps : queues # <<>> /\ SubmitBusy(n)
    \/ \E ok \in BOOLEAN : GatewayReturn(ok)
    \/ WorkerWake
    \/ \E up \in Upstream(queues) : UpdateQueues(up) /\ queues' # <<>>

SpecRegistryLive ==
    /\ Init
    /\ [][NextLive]_vars
    /\ WF_vars(\E ok \in BOOLEAN : GatewayReturn(ok))
    /\ WF_vars(WorkerWake)

\* ------------------------------------- TransactionQueue (transaction-queue.ts)
\* An action is the code from one resumption to the next await.  The
\* mutex of append guards a body with no await in it, so append is one step.
Amounts == {1, SUPPLY_REFILL_LIMIT}

\* process() without `this.processing = true` at the start of process()
LoopTopNoFlag(q) ==
    /\ tQueue' = q
    /\ IF tActive /\ q # <<>>
       THEN /\ worker' = [WorkerIdle EXCEPT !.pc = "gap"]
            /\ tProcessing' = FALSE
       ELSE /\ worker' = WorkerIdle
            /\ tProcessing' = FALSE

\* The top of the loop of process(): `while (this.active && this.queue.length > 0)`,
\* then either the 100 ms sleep or `this.processing = false`.
LoopTop(q) ==
    /\ tQueue' = q
    /\ IF tActive /\ q # <<>>
       THEN /\ worker' = [WorkerIdle EXCEPT !.pc = "gap"]
            /\ tProcessing' = TRUE
       ELSE /\ worker' = WorkerIdle
            /\ tProcessing' = FALSE

\* append that pushes and leaves the loop as it is
StartLoopNever(q) ==
    /\ tQueue' = q
    /\ UNCHANGED <<worker, tProcessing, tLoops>>

\* startProcessing(): process() runs up to its first sleep, or returns at once
StartLoop(q) ==
    /\ LoopTop(q)
    /\ tLoops' = IF tActive /\ q # <<>> THEN tLoops + 1 ELSE tLoops

\* the running process() comes back to the top of its loop
NextIteration(q) ==
    /\ LoopTop(q)
    /\ tLoops' = IF tActive /\ q # <<>> THEN tLoops ELSE tLoops - 1

\* append(item): push, and start process() when it is not running.
QueueAppend(n, amts) ==
    /\ n >= 1
    /\ nextOp + n <= MaxSendOps
    /\ LET ops == NewOps(n)
           item == [transactions |-> ops, retryCount |-> 0]
       IN /\ amount' = [o \in Ops |-> IF o \in SeqToSet(ops) THEN amts[o - nextOp] ELSE amount[o]]
          /\ IF tProcessing
             THEN /\ tQueue' = Append(tQueue, item)
                  /\ UNCHANGED <<worker, tProcessing, tLoops>>
             ELSE StartLoop(Append(tQueue, item))
    /\ nextOp' = nextOp + n
    /\ UNCHANGED <<tActive, sender, opType, movedToEnd>>
    /\ UNCHANGED <<extVars, regVars, attempted, nSubmitted, nDropped, nInvalid, logVars>>

\* quit()
QueueQuit ==
    /\ tActive' = FALSE
    /\ UNCHANGED <<tQueue, tProcessing, tLoops, worker, sender, amount, opType, movedToEnd>>
    /\ UNCHANGED <<extVars, regVars, histVars, logVars>>

\* ------------------------------------------------------- sendTransactions
Max(S) == CHOOSE x \in S : \A y \in S : y <= x
Least(S) == CHOOSE x \in S : \A y \in S : x <= y
RemoveAt(s, i) ==
    IF i \in 1..Len(s) THEN SubSeq(s, 1, i - 1) \o SubSeq(s, i + 1, Len(s)) ELSE s

\* splice(idx, 1) for every index of I, from the back to the front
RECURSIVE Splice(_, _)
Splice(s, I) == IF I = {} THEN s ELSE Splice(RemoveAt(s, Max(I)), I \ {Max(I)})

\* the elements of s at the indices of I, in ascending index order
RECURSIVE Pick(_, _)
Pick(s, I) == IF I = {} THEN <<>> ELSE <<s[Least(I)]>> \o Pick(s, I \ {Least(I)})

\* [...transactions].sort((a, b) => b.amount - a.amount): stable, descending
InsertDesc(s, x) ==
    LET k == Cardinality({i \in 1..Len(s) : amount[s[i]] >= amount[x]})
    IN Take(s, k) \o <<x>> \o Drop(s, k)

RECURSIVE SortDesc(_)
SortDesc(s) ==
    IF s = <<>> THEN <<>> ELSE InsertDesc(SortDesc(SubSeq(s, 1, Len(s) - 1)), s[Len(s)])

\* findIndex: the first index that satisfies the test, 0 for none
FirstIndex(s, o) == IF o \in SeqToSet(s) THEN Least({i \in 1..Len(s) : s[i] = o}) ELSE 0
\* findIndex that finds no oversize operation
LargeIdxNone(batch) == 0

LargeIdx(batch) ==
    LET I == {i \in 1..Len(batch) : amount[batch[i]] >= SUPPLY_REFILL_LIMIT}
    IN IF I = {} THEN 0 ELSE Least(I)

\* What the gateway answers to a failed submission of n operations.  `fixed`
\* is the result of addTrustline / refillTokens where the code calls them.
OpCodes == {"op_success", "op_no_trust", "op_malformed", "op_line_full",
            "op_src_no_trust", "op_underfunded", "op_other"}
OpAnswers ==
    {[code |-> c, fixed |-> TRUE] : c \in OpCodes}
    \cup {[code |-> c, fixed |-> FALSE] : c \in {"op_src_no_trust", "op_underfunded"}}
TxErrors == {"5xx", "no_result_codes", "tx_insufficient_balance", "no_operations"}
Errors(n) ==
    {[kind |-> k, ops |-> <<>>] : k \in TxErrors}
    \cup {[kind |-> "operations", ops |-> a] :
            a \in {b \in [1..n -> OpAnswers] : \E i \in 1..n : b[i].code # "op_success"}}

\* handleSendError with op_line_full left to be retried
HandleSendErrorLineFull(err, batch) ==
    IF err.kind # "operations"
    THEN [retry |-> TRUE, invalid |-> {}, moveToEnd |-> {}, convert |-> {}]
    ELSE LET idx == {i \in DOMAIN err.ops : i <= Len(batch)}
             c(i) == err.ops[i].code
         IN [retry |-> FALSE,
             convert |-> {i \in idx : c(i) = "op_no_trust"},
             invalid |-> {i \in idx :
                            \/ c(i) = "op_malformed"
                            \/ c(i) = "op_src_no_trust" /\ ~err.ops[i].fixed
                            \/ c(i) \notin {"op_success", "op_no_trust", "op_malformed",
                                            "op_line_full", "op_src_no_trust", "op_underfunded"}},
             moveToEnd |-> {i \in idx : c(i) = "op_underfunded" /\ ~err.ops[i].fixed}]

\* handleSendError; indices count from 1 here and from 0 in the source
HandleSendError(err, batch) ==
    IF err.kind # "operations"
    THEN [retry |-> TRUE, invalid |-> {}, moveToEnd |-> {}, convert |-> {}]
    ELSE LET idx == {i \in DOMAIN err.ops : i <= Len(batch)}
             c(i) == err.ops[i].code
         IN [retry |-> FALSE,
             convert |-> {i \in idx : c(i) = "op_no_trust"},
             invalid |-> {i \in idx :
                            \/ c(i) \in {"op_malformed", "op_line_full"}
                            \/ c(i) = "op_src_no_trust" /\ ~err.ops[i].fixed
                            \/ c(i) \notin {"op_success", "op_no_trust", "op_malformed",
                                            "op_line_full", "op_src_no_trust", "op_underfunded"}},
             moveToEnd |-> {i \in idx : c(i) = "op_underfunded" /\ ~err.ops[i].fixed}]

CountTo(f, S) == [o \in DOMAIN f |-> IF o \in S THEN Min(f[o] + 1, HistCap) ELSE f[o]]

\* originalBatchSize without the limit of 100: the slice is the whole list
OriginalBatchSizeAll(left) == Len(left)

\* const originalBatchSize = Math.min(100, transactionsLeft.length)
OriginalBatchSize(left) == Min(BatchLimit, Len(left))

\* the first outer iteration of a call whose sorted input is `sorted`
FirstRound(sorted) ==
    [SenderOff EXCEPT !.left = sorted, !.input = SeqToSet(sorted),
                      !.pc = "poll", !.round = 1, !.start = Len(sorted),
                      !.orig = OriginalBatchSize(sorted),
                      !.current = Take(sorted, OriginalBatchSize(sorted))]

\* the same test with > for >=
RetriesExhaustedGt(bad) == bad > MAX_BAD_RESPONSE_RETRIES

\* if (badResponseRetry >= 3) after the increment
RetriesExhausted(bad) == bad >= MAX_BAD_RESPONSE_RETRIES

\* Math.pow(3, badResponseRetry) seconds
RECURSIVE Pow3(_)
Pow3(n) == IF n = 0 THEN 1 ELSE 3 * Pow3(n - 1)

\* the test of tx.movedToEnd always false
AlreadyMovedNever(batch, I) == {}

\* the QueueTransaction object of operation o
OpRecord(o) == [amount |-> amount[o], type |-> opType[o], movedToEnd |-> movedToEnd[o]]

\* a conversion that flips the type back when applied again
ConvertToggle(tx) ==
    [tx EXCEPT !.type = IF @ = "claimable_balance" THEN "payment" ELSE "claimable_balance"]

\* currentBatch[idx].type = 'claimable_balance'
ConvertToClaimable(tx) == [tx EXCEPT !.type = "claimable_balance"]

\* if (tx.movedToEnd): the indices of I whose operation has been moved before
AlreadyMoved(batch, I) == {i \in I : movedToEnd[batch[i]]}

\* the operations are put in front of the remaining list
PushToFront(left, txs) == txs \o left

\* transactionsLeft.push(tx) for each tx of txs
PushToEnd(left, txs) == left \o txs

\* the counter never advances
OperationErrorRetryStuck(n) == 0

\* operationErrorRetry++
NextOperationErrorRetry(n) == n + 1

\* the batch is not skipped
SkipNothing(left, originalBatchSize) == left

\* transactionsLeft = transactionsLeft.slice(originalBatchSize)
SkipBatch(left, originalBatchSize) == Drop(left, originalBatchSize)

\* slice(100): a full slice is removed, whatever currentBatch holds
RemoveFullSlice(left, currentBatch) == Drop(left, BatchLimit)

\* transactionsLeft = transactionsLeft.slice(currentBatch.length)
RemoveProcessed(left, currentBatch) == Drop(left, Len(currentBatch))

\* `return { success }`
Finish(s, ok) ==
    /\ sender' = [s EXCEPT !.pc = "returned", !.success = ok]
    /\ UNCHANGED <<tQueue, tProcessing, tLoops, worker>>

\* `continue`: back to the settings read at the top of the inner loop
Continue(s) ==
    /\ sender' = [s EXCEPT !.pc = "poll"]
    /\ UNCHANGED <<tQueue, tProcessing, tLoops, worker>>

\* `break`: the outer loop takes the next slice or the function returns success
Break(s) ==
    IF s.left = <<>>
    THEN Finish(s, TRUE)
    ELSE LET originalBatchSize == OriginalBatchSize(s.left)
         IN Continue([s EXCEPT !.orig = originalBatchSize,
                               !.current = Take(s.left, originalBatchSize),
                               !.bad = 0, !.opr = 0,
                               !.round = @ + 1, !.start = Len(s.left),
                               !.startTail = Len(s.tail), !.streak = 0,
                               !.backoffs = <<>>])

\* WorkerTake with sendTransactions working on copies of the operations,
\* [...transactions].map((t) => ({...t})): every run starts with fresh flags
WorkerTakeCopies ==
    /\ worker.pc = "gap"
    /\ IF tQueue = <<>>
       THEN /\ NextIteration(tQueue)
            /\ UNCHANGED sender
       ELSE LET item == Head(tQueue)
                sorted == SortDesc(item.transactions)
            IN /\ tQueue' = Tail(tQueue)
               /\ tProcessing' = tProcessing
               /\ tLoops' = tLoops
               /\ worker' = [pc |-> "callback", item |-> item]
               /\ IF sorted = <<>>
                  THEN sender' = [SenderOff EXCEPT !.pc = "returned", !.success = TRUE]
                  ELSE sender' = FirstRound(sorted)
    /\ movedToEnd' = [o \in Ops |->
           IF tQueue # <<>> /\ o \in SeqToSet(Head(tQueue).transactions)
           THEN FALSE ELSE movedToEnd[o]]
    /\ UNCHANGED <<tActive, amount, opType>>
    /\ UNCHANGED <<extVars, regVars, histVars, logVars>>

\* process() wakes from the 100 ms sleep, shifts an item and calls the
\* callback, which runs sendTransactions up to its first await.
WorkerTake ==
    /\ worker.pc = "gap"
    /\ IF tQueue = <<>>
       THEN /\ NextIteration(tQueue)
            /\ UNCHANGED sender
       ELSE LET item == Head(tQueue)
                sorted == SortDesc(item.transactions)
            IN /\ tQueue' = Tail(tQueue)
               /\ tProcessing' = tProcessing
               /\ tLoops' = tLoops
               /\ worker' = [pc |-> "callback", item |-> item]
               /\ IF sorted = <<>>
                  THEN sender' = [SenderOff EXCEPT !.pc = "returned", !.success = TRUE]
                  ELSE sender' = FirstRound(sorted)
    /\ UNCHANGED <<tActive, amount, opType, movedToEnd>>
    /\ UNCHANGED <<extVars, regVars, histVars, logVars>>

\* CallbackReturn with `retryCount > this.MAX_ITEM_RETRIES` for `>=`
CallbackReturnGt ==
    /\ sender.pc = "returned"
    /\ sender' = SenderOff
    /\ IF sender.success
       THEN /\ NextIteration(tQueue)
            /\ nDropped' = nDropped
       ELSE LET retryCount == worker.item.retryCount + 1
            IN IF retryCount > MAX_ITEM_RETRIES
               THEN /\ NextIteration(tQueue)
                    /\ nDropped' = CountTo(nDropped, SeqToSet(worker.item.transactions))
               ELSE /\ tQueue' = <<[worker.item EXCEPT !.retryCount = retryCount]>> \o tQueue
                    /\ worker' = [WorkerIdle EXCEPT !.pc = "backoff"]
                    /\ tProcessing' = tProcessing
                    /\ tLoops' = tLoops
                    /\ nDropped' = nDropped
    /\ UNCHANGED <<tActive, amount, opType, movedToEnd>>
    /\ UNCHANGED <<extVars, regVars, nextOp, attempted, nSubmitted, nInvalid, logVars>>

\* CallbackReturn with this.queue.push(item) for this.queue.unshift(item)
CallbackReturnPush ==
    /\ sender.pc = "returned"
    /\ sender' = SenderOff
    /\ IF sender.success
       THEN /\ NextIteration(tQueue)
            /\ nDropped' = nDropped
       ELSE LET retryCount == worker.item.retryCount + 1
            IN IF retryCount >= MAX_ITEM_RETRIES
               THEN /\ NextIteration(tQueue)
                    /\ nDropped' = CountTo(nDropped, SeqToSet(worker.item.transactions))
               ELSE /\ tQueue' = Append(tQueue, [worker.item EXCEPT !.retryCount = retryCount])
                    /\ worker' = [WorkerIdle EXCEPT !.pc = "backoff"]
                    /\ tProcessing' = tProcessing
                    /\ tLoops' = tLoops
                    /\ nDropped' = nDropped
    /\ UNCHANGED <<tActive, amount, opType, movedToEnd>>
    /\ UNCHANGED <<extVars, regVars, nextOp, attempted, nSubmitted, nInvalid, logVars>>

\* The callback of createQueue resumes with the result and throws when it is
\* not a success; process() then counts the retry, drops the item at
\* MAX_ITEM_RETRIES or puts it back at the head and sleeps 5 s.
CallbackReturn ==
    /\ sender.pc = "returned"
    /\ sender' = SenderOff
    /\ IF sender.success
       THEN /\ NextIteration(tQueue)
            /\ nDropped' = nDropped
       ELSE LET retryCount == worker.item.retryCount + 1
            IN IF retryCount >= MAX_ITEM_RETRIES
               THEN /\ NextIteration(tQueue)
                    /\ nDropped' = CountTo(nDropped, SeqToSet(worker.item.transactions))
               ELSE /\ tQueue' = <<[worker.item EXCEPT !.retryCount = retryCount]>> \o tQueue
                    /\ worker' = [WorkerIdle EXCEPT !.pc = "backoff"]
                    /\ tProcessing' = tProcessing
                    /\ tLoops' = tLoops
                    /\ nDropped' = nDropped
    /\ UNCHANGED <<tActive, amount, opType, movedToEnd>>
    /\ UNCHANGED <<extVars, regVars, nextOp, attempted, nSubmitted, nInvalid, logVars>>

\* process() wakes from the 5 s sleep after a failed item
WorkerBackoffEnd ==
    /\ worker.pc = "backoff"
    /\ NextIteration(tQueue)
    /\ UNCHANGED <<tActive, sender, amount, opType, movedToEnd>>
    /\ UNCHANGED <<extVars, regVars, histVars, logVars>>

\* a wait on the switch that counts as a failed attempt
PauseCounting(s) == [s EXCEPT !.pc = "paused", !.bad = @ + 1]

\* sending is stopped: the STOP_SENDING_INTERVAL sleep, then `continue`
Pause(s) == [s EXCEPT !.pc = "paused"]

\* the settings read returns: sleep and read again, or call the gateway
\* with the first oversize operation alone or with the whole currentBatch
SettingsReturn(sendingEnabled) ==
    /\ sender.pc = "poll"
    /\ IF ~sendingEnabled
       THEN /\ sender' = Pause(sender)
            /\ attempted' = attempted
       ELSE LET largeIdx == LargeIdx(sender.current)
            IN IF largeIdx # 0
               THEN /\ sender' = [sender EXCEPT !.pc = "sendLarge"]
                    /\ attempted' = Mark(attempted, {sender.current[largeIdx]})
               ELSE /\ sender' = [sender EXCEPT !.pc = "send"]
                    /\ attempted' = Mark(attempted, SeqToSet(sender.current))
    /\ UNCHANGED <<tQueue, tProcessing, tActive, tLoops, worker, amount, opType, movedToEnd>>
    /\ UNCHANGED <<extVars, regVars, nextOp, nSubmitted, nDropped, nInvalid, logVars>>

\* the sleep of a stopped sender ends: back to the settings read
PauseEnd ==
    /\ sender.pc = "paused"
    /\ sender' = [sender EXCEPT !.pc = "poll"]
    /\ UNCHANGED <<tQueue, tProcessing, tActive, tLoops, worker, amount, opType, movedToEnd>>
    /\ UNCHANGED <<extVars, regVars, histVars, logVars>>

\* the catch block of sendTransactions, lines 188-305
OnSendError(err) ==
    LET s == sender
        r == HandleSendError(err, s.current)
        alreadyMoved == AlreadyMoved(s.current, r.moveToEnd)
        actualMoveToEnd == r.moveToEnd \ alreadyMoved
        invalidIndices == r.invalid \cup alreadyMoved
        indicesToRemove == invalidIndices \cup actualMoveToEnd
        moved == Pick(s.current, actualMoveToEnd)
        pushed == PushToEnd(s.left, moved)
        badResponseRetry == s.bad + 1
        operationErrorRetry == NextOperationErrorRetry(s.opr)
        exhausted == ~r.retry /\ indicesToRemove = {}
                     /\ operationErrorRetry >= MAX_OPERATION_RETRIES
        converted == {s.current[i] : i \in r.convert}
    IN /\ opType' = [o \in DOMAIN opType |-> IF o \in converted
                                   THEN ConvertToClaimable(OpRecord(o)).type
                                   ELSE opType[o]]
       /\ movedToEnd' = [o \in DOMAIN movedToEnd |->
                             movedToEnd[o] \/ \E i \in actualMoveToEnd : s.current[i] = o]
       /\ nInvalid' = CountTo(nInvalid, {s.current[i] : i \in invalidIndices})
       /\ nDropped' = IF exhausted THEN CountTo(nDropped, SeqToSet(Take(s.left, s.orig)))
                      ELSE nDropped
       /\ IF r.retry
          THEN IF RetriesExhausted(badResponseRetry)
               THEN Finish([s EXCEPT !.bad = badResponseRetry, !.streak = @ + 1], FALSE)
               ELSE Continue([s EXCEPT !.bad = badResponseRetry, !.streak = @ + 1,
                                       !.backoffs = Append(@, Pow3(badResponseRetry))])
          ELSE IF indicesToRemove = {}
               THEN IF exhausted
                    THEN Break([s EXCEPT !.opr = operationErrorRetry,
                                         !.left = SkipBatch(s.left, s.orig)])
                    ELSE Continue([s EXCEPT !.opr = operationErrorRetry])
               ELSE LET t == [s EXCEPT !.current = Splice(s.current, indicesToRemove),
                                       !.left = Splice(pushed, indicesToRemove),
                                       !.opr = 0,
                                       !.streak = 0,
                                       !.tail = @ \o moved,
                                       !.promoted = @ \cup {s.current[i] : i \in alreadyMoved},
                                       !.invalid = s.invalid \cup {s.current[i] : i \in invalidIndices}]
                    IN IF t.current = <<>> THEN Break(t) ELSE Continue(t)

\* stellar.sendMultipleTokens returns a hash or throws
Answers(n) == {[kind |-> "hash", ops |-> <<>>]} \cup Errors(n)
SendReturn(ans) ==
    /\ sender.pc \in {"sendLarge", "send"}
    /\ IF ans.kind # "hash"
       THEN /\ OnSendError(ans)
            /\ nSubmitted' = nSubmitted
       ELSE /\ UNCHANGED <<opType, movedToEnd, nInvalid, nDropped>>
            /\ IF sender.pc = "sendLarge"
               THEN LET largeIdx == LargeIdx(sender.current)
                        tx == sender.current[largeIdx]
                        s == [sender EXCEPT !.left = RemoveAt(sender.left, FirstIndex(sender.left, tx)),
                                            !.current = RemoveAt(sender.current, largeIdx),
                                            !.streak = 0,
                                            !.sent = sender.sent \cup {tx}]
                    IN /\ nSubmitted' = CountTo(nSubmitted, {tx})
                       /\ IF s.current = <<>> THEN Break(s) ELSE Continue(s)
               ELSE /\ nSubmitted' = CountTo(nSubmitted, SeqToSet(sender.current))
                    /\ Break([sender EXCEPT !.left = RemoveProcessed(sender.left, sender.current),
                                            !.sent = sender.sent \cup SeqToSet(sender.current)])
    /\ UNCHANGED <<tActive, amount>>
    /\ UNCHANGED <<extVars, regVars, nextOp, attempted, logVars>>

Submitted == IF sender.pc = "sendLarge" THEN 1 ELSE Len(sender.current)

\* The queue of createQueue at work on the items appended to it; quit() is
\* not called in these behaviours.
NextSender ==
    \/ \E n \in 1..MaxSendOps : \E amts \in [1..n -> Amounts] : QueueAppend(n, amts)
    \/ WorkerTake
    \/ WorkerBackoffEnd
    \/ CallbackReturn
    \/ \E sendingEnabled \in BOOLEAN : SettingsReturn(sendingEnabled)
    \/ PauseEnd
    \/ \E ans \in Answers(Submitted) : SendReturn(ans)

SpecSender == Init /\ [][NextSender]_vars

\* the same sort for operations whose amounts are amt
RECURSIVE SortDescBy(_, _)
SortDescBy(amt, s) ==
    IF s = <<>> THEN <<>>
    ELSE LET r == SortDescBy(amt, SubSeq(s, 1, Len(s) - 1))
             x == s[Len(s)]
             k == Cardinality({i \in 1..Len(r) : amt[r[i]] >= amt[x]})
         IN Take(r, k) \o <<x>> \o Drop(r, k)

\* sendTransactions(distributor, transactions) called directly with n new
\* operations; it runs up to its first await. One call is followed.
SendCall(n, amts) ==
    /\ sender.pc = "off"
    /\ worker.pc = "idle"
    /\ nextOp = 0
    /\ n <= MaxOps
    /\ nextOp' = nextOp + n
    /\ amount' = [o \in Ops |-> IF o \in SeqToSet(NewOps(n)) THEN amts[o - nextOp]
                                ELSE amount[o]]
    /\ LET sorted == SortDescBy([o \in SeqToSet(NewOps(n)) |-> amts[o - nextOp]], NewOps(n))
       IN sender' = IF sorted = <<>>
                    THEN [SenderOff EXCEPT !.pc = "returned", !.success = TRUE]
                    ELSE FirstRound(sorted)
    /\ UNCHANGED <<tQueue, tProcessing, tActive, tLoops, worker, opType, movedToEnd>>
    /\ UNCHANGED <<extVars, regVars, attempted, nSubmitted, nDropped, nInvalid, logVars>>

\* the direct caller resumes with the result
SendDone ==
    /\ sender.pc = "returned"
    /\ worker.pc = "idle"
    /\ sender' = SenderOff
    /\ UNCHANGED <<tQueue, tProcessing, tActive, tLoops, worker, amount, opType, movedToEnd>>
    /\ UNCHANGED <<extVars, regVars, histVars, logVars>>

\* The answers of a gateway whose accounts all have trust lines: no
\* op_no_trust, so no operation is converted.
TrustedAnswers(n) ==
    {a \in Answers(n) : \A i \in DOMAIN a.ops : a.ops[i].code # "op_no_trust"}

\* sendTransactions on its own, on inputs longer than one slice
NextSend ==
    \/ \E n \in 0..MaxOps : \E amts \in [1..n -> Amounts] : SendCall(n, amts)
    \/ \E sendingEnabled \in BOOLEAN : SettingsReturn(sendingEnabled)
    \/ PauseEnd
    \/ \E ans \in TrustedAnswers(Submitted) : SendReturn(ans)
    \/ SendDone

SpecSend == Init /\ [][NextSend]_vars

\* sendTransactions when sending is eventually enabled and every call to the
\* gateway returns: the sleep of a stopped sender ends, of the settings reads
\* it keeps making one finds sendingEnabled, and the gateway answers.
SpecSendLive ==
    /\ SpecSend
    /\ WF_vars(PauseEnd)
    /\ SF_vars(SettingsReturn(TRUE))
    /\ WF_vars(\E ans \in TrustedAnswers(Submitted) : SendReturn(ans))

\* The same queue with quit() called at any moment, at work on items of one
\* ordinary operation each.
NextQueue ==
    \/ QueueAppend(1, <<1>>)
    \/ QueueQuit
    \/ WorkerTake
    \/ WorkerBackoffEnd
    \/ CallbackReturn
    \/ \E sendingEnabled \in BOOLEAN : SettingsReturn(sendingEnabled)
    \/ PauseEnd
    \/ \E ans \in Answers(Submitted) : SendReturn(ans)

SpecQueue == Init /\ [][NextQueue]_vars

\* ------------------------------------------------------ the classifier
\* handleSendError and the catch block applied to the first answer to a
\* slice of up to MaxClassify ordinary operations, for every error the
\* gateway can answer with; the settings read and the next submission follow.
ClassifyOps == 1..MaxClassify

\* sendTransactions suspended in the gateway call with the slice 1..n
AtFirstSubmission(n) ==
    [SenderOff EXCEPT !.pc = "send", !.left = [i \in 1..n |-> i],
                      !.current = [i \in 1..n |-> i], !.orig = n, !.input = 1..n,
                      !.round = 1, !.start = n]

InitClassify ==
    /\ queues = <<>>
    /\ pendingOperations = <<>>
    /\ isProcessing = FALSE
    /\ qItems = [q \in DistIds |-> <<>>]
    /\ qProc = [q \in DistIds |-> FALSE]
    /\ holder = Idle
    /\ nextOp = 0
    /\ sender \in {AtFirstSubmission(n) : n \in ClassifyOps}
    /\ attempted = [o \in ClassifyOps |-> o \in sender.input]
    /\ nSubmitted = [o \in ClassifyOps |-> 0]
    /\ nDropped = [o \in ClassifyOps |-> 0]
    /\ nInvalid = [o \in ClassifyOps |-> 0]
    /\ lastReturn = NoReturn
    /\ lastChoice = NoChoice
    /\ call = NoCall
    /\ tQueue = <<>>
    /\ tProcessing = FALSE
    /\ tLoops = 0
    /\ tActive = TRUE
    /\ worker = WorkerIdle
    /\ amount = [o \in ClassifyOps |-> 1]
    /\ opType = [o \in ClassifyOps |-> "payment"]
    /\ movedToEnd = [o \in ClassifyOps |-> FALSE]
    /\ issuers = 0
    /\ keypairArrays = [a \in Arrays |-> <<>>]
    /\ settings = [issuerSecret |-> "k1", refreshed |-> FALSE]
    /\ initPc = "queues"
    /\ itemIssuers = [o \in ClassifyOps |-> NoArray]
    /\ lastRefresh = NoRefresh
    /\ lastError = NoError

\* the first submission throws err: the catch block runs, and err is logged
ClassifyReturn(err) ==
    /\ sender.pc = "send"
    /\ lastError = NoError
    /\ OnSendError(err)
    /\ lastError' = err
    /\ UNCHANGED <<tActive, amount, nSubmitted, nextOp, attempted>>
    /\ UNCHANGED <<regVars, logVars, issVars, itemIssuers, lastRefresh>>

\* The errors drawn for a slice of n operations: every error for the short
\* slices; for the longer ones every combination of the codes op_success,
\* op_no_trust, op_malformed and op_underfunded, with the refill succeeding.
LongSliceAnswers ==
    {x \in OpAnswers : x.fixed /\ x.code \in {"op_success", "op_no_trust", "op_malformed",
                                              "op_underfunded"}}
ClassifyErrors(n) ==
    IF n <= MaxOps THEN Errors(n)
    ELSE {[kind |-> k, ops |-> <<>>] : k \in TxErrors}
         \cup {[kind |-> "operations", ops |-> a] :
                 a \in {b \in [1..n -> LongSliceAnswers] :
                           \E i \in 1..n : b[i].code # "op_success"}}

NextClassify ==
    \/ \E err \in ClassifyErrors(Len(sender.current)) : ClassifyReturn(err)
    \/ SettingsReturn(TRUE)

SpecClassify == InitClassify /\ [][NextClassify]_vars

\* ------------------------------------------------- the selection function
\* getSmallestQueue applied to registry states drawn from bounded sets: up
\* to MaxSelQueues queues in any insertion order, each holding up to
\* MaxSelSize items.
SelIds == 1..MaxSelQueues

InitSelect ==
    /\ queues \in Arrangements(SelIds) \ {<<>>}
    /\ qItems \in [SelIds -> {[i \in 1..n |-> NoItem] : n \in 0..MaxSelSize}]
    /\ \A q \in SelIds : q \notin SeqToSet(queues) => qItems[q] = <<>>
    /\ qProc = [q \in SelIds |-> FALSE]
    /\ pendingOperations = <<>>
    /\ isProcessing = FALSE
    /\ holder = Idle
    /\ nextOp = 0
    /\ attempted = [o \in Ops |-> FALSE]
    /\ nSubmitted = Zero
    /\ nDropped = Zero
    /\ nInvalid = Zero
    /\ lastReturn = NoReturn
    /\ lastChoice = NoChoice
    /\ call = NoCall
    /\ SenderInit
    /\ ExtInit

\* const queue = this.getSmallestQueue() in append
SelectQueue ==
    /\ ~lastChoice.seen
    /\ lastChoice' = ChoiceOf(queues, qItems, GetSmallestQueue(queues, qItems))
    /\ UNCHANGED <<regVars, histVars, lastReturn, call, sndVars, extVars>>

SpecSelect == InitSelect /\ [][SelectQueue]_vars

\* ------------------------------------------------------- derived notions
PendingOps == SeqToSet(pendingOperations)
ItemsOps(items) == UNION {SeqToSet(items[i].transactions) : i \in DOMAIN items}
QueuedOps == UNION {ItemsOps(qItems[q]) : q \in DOMAIN qItems} \cup ItemsOps(holder.own)
InFlightOps == IF holder.pc = "gateway" THEN SeqToSet(holder.item.transactions) ELSE {}
Admitted == 1..nextOp
\* the operation is in no container any more
Ended(o) == o \in Admitted /\ o \notin PendingOps \cup QueuedOps \cup InFlightOps
Outcomes(o) == nSubmitted[o] + nInvalid[o] + nDropped[o]
Completed == {o \in Admitted : Outcomes(o) > 0}

\* the operations handed to Submit in this step, in order
Handed == [i \in 1..(nextOp' - nextOp) |-> nextOp + i]
\* a call of Submit returns in this step
ReturnStep ==
    /\ holder'.pc = "none"
    /\ holder.pc = "sleep" \/ (~isProcessing /\ (nextOp' # nextOp \/ pendingOperations' # pendingOperations))
\* Submit selects a queue and enqueues a slice in this step
EnqueueStep ==
    /\ holder'.pc = "gateway"
    /\ holder.pc # "gateway"
    /\ Len(pendingOperations') < Len(pendingOperations) + (nextOp' - nextOp)

\* the operations the queue of createQueue still holds, waiting or in the callback
SenderHeld == ItemsOps(tQueue) \cup
              (IF worker.pc = "callback" THEN SeqToSet(worker.item.transactions) ELSE {})

SizeAt(i) == Len(qItems[queues[i]])
SmallestAt == {i \in DOMAIN queues : \A j \in DOMAIN queues : SizeAt(i) <= SizeAt(j)}

\* ------------------------------------------------------------------ claims
\* C1: every admitted operation whose processing has ended was submitted
\* successfully, declared invalid or dropped after a failure exactly once in
\* total.
C1_ExactlyOneOutcome == \A o \in Ops : Ended(o) => Outcomes(o) = 1

\* C2: with an honest gateway no operation is part of more than one
\* successful gateway submission, retries of a batch by the queue included.
C2_AtMostOneSubmission == \A o \in Ops : nSubmitted[o] <= 1

\* C3: no operation handed to the dispatcher is discarded without ever having
\* been part of a gateway submission attempt: once it has left the queue and
\* the callback, it has been attempted.
C3_NoneDiscardedUnattempted ==
    \A o \in 1..nextOp : o \notin SenderHeld => attempted[o]

\* The same for the file-local queue of DistributorQueueService, as a
\* liveness property of SpecRegistryLive: every operation admitted by Submit is
\* eventually in a gateway call.
RegistryEventuallyAttempted == \A o \in Ops : (o \in Admitted) ~> attempted[o]

\* C4: sendTransactions returns success exactly when every input operation
\* was part of a successful gateway submission (as a payment or converted to a
\* claimable balance) or was classified invalid.
C4_SuccessIffSettled ==
    sender.pc = "returned" =>
        (sender.success <=> sender.input \subseteq (sender.sent \cup sender.invalid))

\* C5: Submit returns only when the pending buffer is empty or an error has
\* been raised to the caller.
C5_ReturnsOnlyWhenDrained ==
    lastReturn.kind # "none" => (lastReturn.empty \/ lastReturn.raised)

\* C6: with no queue in the registry, Submit of a non-empty list raises to
\* its caller and leaves the pending buffer as it was before the call.
C6_NoDistributorsRaises ==
    [][(~isProcessing /\ queues = <<>> /\ nextOp' > nextOp)
          => (lastReturn'.raised /\ pendingOperations' = pendingOperations)]_vars

\* C7: when admitting a slice fails, the slice is put back at the head of
\* the pending buffer in its order and the error reaches the caller.
C7_SliceRestored ==
    [][(ReturnStep /\ lastReturn'.kind = "caught")
          => (lastReturn'.raised /\ pendingOperations' = pendingOperations \o Handed)]_vars

\* C8: queued + pending + in-flight operations = accepted - completed.
C8_Conservation ==
    Cardinality(QueuedOps) + Len(pendingOperations) + Cardinality(InFlightOps)
        = nextOp - Cardinality(Completed)

\* C9: the queue chosen at an enqueue is no larger than any queue of the
\* registry at that moment.
C9_ChosenIsSmallest ==
    lastChoice.seen =>
        \A i, j \in DOMAIN lastChoice.order :
            lastChoice.order[i] = lastChoice.chosen
                => lastChoice.sizes[i] <= lastChoice.sizes[j]

\* C9 witness: a queue was chosen among queues of different sizes, and it is
\* not the first of the map.
C9_ChosenAmongUnequal ==
    /\ lastChoice.seen
    /\ Len(lastChoice.order) >= 2
    /\ lastChoice.chosen # lastChoice.order[1]
    /\ \E i, j \in DOMAIN lastChoice.sizes : lastChoice.sizes[i] # lastChoice.sizes[j]

\* C10 as stated: among the smallest queues Submit chooses the lowest id.
C10_LowestIdWins ==
    [][EnqueueStep => \A i \in SmallestAt : holder'.qid <= queues[i]]_vars

\* C10 amended: among the smallest queues Submit chooses the one that comes
\* first in the map's insertion order.
C10_FirstInsertedWins ==
    [][EnqueueStep => \E i \in SmallestAt :
                         /\ holder'.qid = queues[i]
                         /\ \A j \in SmallestAt : i <= j]_vars

\* C10 witness: two queues tie, the one inserted first has the higher id and
\* holds the batch in flight.
C10_TieFirstInserted ==
    /\ holder.pc = "gateway"
    /\ ~holder.evicted
    /\ Len(queues) >= 2
    /\ \A i \in DOMAIN queues : qItems[queues[i]] = <<>>
    /\ holder.qid = queues[1]
    /\ queues[1] > queues[2]


\* ---------------------------------------------------------------- batching
\* the batches of s: consecutive runs of BatchLimit, the last one shorter
RECURSIVE Chunks(_)
Chunks(s) ==
    IF s = <<>> THEN <<>>
    ELSE <<Take(s, BatchLimit)>> \o Chunks(Drop(s, BatchLimit))

\* the batches the latest call has enqueued, in the order of enqueueing
EnqueuedBatches == [i \in DOMAIN call.enq |-> call.enq[i].transactions]

\* C11: a call of Submit with n operations that entered with the pending
\* buffer empty, ran alone and returned normally has enqueued exactly the
\* ceil(n / BatchLimit) consecutive batches of its operations, all of
\* BatchLimit operations but the last, in submission order; with n = 0 it
\* has enqueued nothing.
C11_BatchesInOrder ==
    (call.state = "done" /\ call.solo) => EnqueuedBatches = Chunks(call.ops)

\* a lone call returned after a full batch and a remainder
C11_FullBatchAndRemainder ==
    /\ call.state = "done"
    /\ call.solo
    /\ Len(call.ops) > BatchLimit
    /\ Len(call.ops) % BatchLimit # 0
    /\ Len(call.enq) = 2

\* C12: with the queues 1 and 2 in the map, a gateway that has not failed
\* and a lone call of Submit whose first batch went to queue 1, the second
\* batch of that call goes to queue 2.
C12_SecondBatchOnSecondQueue ==
    [][(/\ queues = <<1, 2>>
        /\ nDropped = Zero
        /\ call.solo
        /\ Len(call.enq) = 1
        /\ call.enq[1].q = 1
        /\ Len(call'.enq) = 2) => call'.enq[2].q = 2]_vars

\* C13: Submit does not wait for the gateway: once every batch of a lone
\* call has been enqueued, the call has returned, whatever the gateway is
\* doing with those batches.
C13_ReturnsOnceEnqueued ==
    (call.solo /\ call.ops # <<>> /\ EnqueuedBatches = Chunks(call.ops))
        => call.state # "running"

\* ------------------------------------------------- the queue of createQueue
\* C14: in every interleaving of append, worker steps and quit, at most one
\* call of process() is at work on the queue, so at most one batch is in
\* the sender callback.
C14_SingleWorker == tLoops <= 1

\* an append arrived while the one worker had a batch in the callback
C14_AppendDuringCallback ==
    /\ tLoops = 1
    /\ worker.pc = "callback"
    /\ tQueue # <<>>

\* a step of append(item): one more operation has been handed to the queue
AppendStep == nextOp' > nextOp

\* C15: append on a queue whose active flag is false is refused and leaves
\* the queue's items as they were.
C15_AppendAfterQuitRefused == [][(AppendStep /\ ~tActive) => tQueue' = tQueue]_vars

\* C16: once the active flag is false the number of items never grows,
\* neither by an append nor by the worker putting a failed batch back.
C16_NoGrowthAfterQuit == [][~tActive => Len(tQueue') <= Len(tQueue)]_vars

\* a step in which the worker shifts a batch and hands it to the callback
HandOver == worker.pc # "callback" /\ worker'.pc = "callback"

\* C17: after quit() no batch is popped from the queue or handed to the
\* sender callback.
C17_NoHandOverAfterQuit == [][~tActive => ~HandOver]_vars

\* the callback has thrown and process() is about to catch it
CallbackFails == sender.pc = "returned" /\ ~sender.success /\ sender'.pc = "off"

\* C18: a batch is handed to the callback at most MAX_ITEM_RETRIES times: the
\* hand-over of a batch with retryCount r is its (r + 1)-th; every failure
\* puts the batch back at the front with retryCount r + 1 while that is
\* below MAX_ITEM_RETRIES and drops it otherwise, so no stored retryCount
\* exceeds MAX_ITEM_RETRIES.
C18_RetryBudget ==
    [][/\ HandOver => worker'.item.retryCount + 1 <= MAX_ITEM_RETRIES
       /\ CallbackFails =>
              LET retryCount == worker.item.retryCount + 1
              IN IF retryCount < MAX_ITEM_RETRIES
                 THEN tQueue' = <<[worker.item EXCEPT !.retryCount = retryCount]>> \o tQueue
                 ELSE tQueue' = tQueue
       /\ \A i \in DOMAIN tQueue' : tQueue'[i].retryCount <= MAX_ITEM_RETRIES]_vars

\* the last allowed hand-over of a batch has failed
C18_LastFailure ==
    /\ worker.pc = "callback"
    /\ worker.item.retryCount = MAX_ITEM_RETRIES - 1
    /\ sender.pc = "returned"
    /\ ~sender.success

\* C19: batches go to the callback in the order of their appends, a retried
\* batch first: the batch handed over was appended before every batch that
\* is still waiting, whenever those were appended.
C19_AppendOrder ==
    [][HandOver => \A i \in DOMAIN tQueue' :
           Head(worker'.item.transactions) < Head(tQueue'[i].transactions)]_vars

\* a batch that failed is in the callback again while a later one waits
C19_RetryBeforeLater ==
    /\ worker.pc = "callback"
    /\ worker.item.retryCount >= 1
    /\ tQueue # <<>>

\* ----------------------------------------------------------- sendTransactions
\* C20: the movedToEnd flag of an operation only ever goes from false to
\* true: once set it stays set, through the retries of the inner loop, the
\* outer iterations of sendTransactions and the queue's retries of the item.
C20_MovedToEndSticky == [][\A o \in Ops : movedToEnd[o] => movedToEnd'[o]]_vars

\* an operation moved to the end in an earlier run is in the callback again
C20_MovedThenRetried ==
    /\ worker.pc = "callback"
    /\ worker.item.retryCount >= 1
    /\ \E o \in SeqToSet(worker.item.transactions) : movedToEnd[o]

\* the call is suspended in stellar.sendMultipleTokens
AtGateway == sender.pc \in {"send", "sendLarge"}

\* C21: every list of operations passed to the gateway holds at least one
\* and at most BatchLimit operations, whatever the size of the input and
\* whatever removals, requeues and oversize splits came before.
C21_BatchSizeBounded ==
    AtGateway => (Submitted >= 1 /\ Submitted <= BatchLimit /\ sender.current # <<>>)

\* a full slice of an input longer than one slice is at the gateway
C21_FullSliceOfLongInput ==
    /\ sender.pc = "send"
    /\ Len(sender.current) = BatchLimit
    /\ Len(sender.left) > BatchLimit

\* the amounts of the operations in the list passed to the gateway: the
\* clone of the oversize operation carries SUPPLY_REFILL_LIMIT - 1
SubmittedAmounts ==
    IF sender.pc = "sendLarge" THEN <<SUPPLY_REFILL_LIMIT - 1>>
    ELSE [i \in DOMAIN sender.current |-> amount[sender.current[i]]]

\* the oversize operation the call is submitting alone
LargeTx == sender.current[LargeIdx(sender.current)]

C23_ErrorOnlyWithoutProgress ==
    (sender.pc = "returned" /\ ~sender.success)
        => sender.streak >= MAX_BAD_RESPONSE_RETRIES

\* the call has returned { success: false }
ReturnedError == sender.pc = "returned" /\ ~sender.success

NewlyMoved == SubSeq(sender'.tail, Len(sender.tail) + 1, Len(sender'.tail))

\* C25: an operation is pushed onto the tail of transactionsLeft only with
\* its movedToEnd flag unset; the push sets the flag and takes the
\* operation out of its place in currentBatch; an operation whose flag is
\* set is never pushed again, and once classified invalid it is gone from
\* transactionsLeft. So within one call no operation is pushed twice.
C25_MovedAtMostOnce ==
    [][/\ Len(sender'.tail) > Len(sender.tail) =>
              /\ \A i \in DOMAIN NewlyMoved :
                     /\ NewlyMoved[i] \in SeqToSet(sender.current)
                     /\ ~movedToEnd[NewlyMoved[i]]
                     /\ movedToEnd'[NewlyMoved[i]]
              /\ SubSeq(sender'.left, Len(sender'.left) - Len(NewlyMoved) + 1,
                        Len(sender'.left)) = NewlyMoved
       /\ \A i, j \in DOMAIN sender'.tail : sender'.tail[i] = sender'.tail[j] => i = j
       /\ \A o \in sender'.promoted \ sender.promoted :
              /\ movedToEnd[o]
              /\ o \in SeqToSet(sender.current)
              /\ o \in sender'.invalid
              /\ Len(sender'.tail) >= Len(sender.tail)
              /\ o \notin SeqToSet(NewlyMoved)
       /\ \A o \in sender'.invalid : o \notin SeqToSet(sender'.left)]_vars

\* an operation was moved to the tail, attempted again and dropped as invalid
C25_MovedThenInvalid ==
    \E o \in SeqToSet(sender.tail) :
        /\ o \in sender.promoted
        /\ o \notin SeqToSet(sender.left)
        /\ movedToEnd[o]

\* two gateway errors with the same payload: the same kind and the same
\* operation codes, whatever addTrustline and refillTokens then return
SamePayload(e1, e2) ==
    /\ e1.kind = e2.kind
    /\ DOMAIN e1.ops = DOMAIN e2.ops
    /\ \A i \in DOMAIN e1.ops : e1.ops[i].code = e2.ops[i].code

\* C26: classifying the same error payload twice gives the same plan: the
\* result of handleSendError depends on the payload alone.
C26_PlanFromPayloadOnly ==
    AtGateway =>
        \A e1, e2 \in Errors(Submitted) :
            SamePayload(e1, e2)
                => HandleSendError(e1, sender.current) = HandleSendError(e2, sender.current)

\* C27: converting an operation to a claimable balance is idempotent and
\* touches the type alone: converting twice gives what converting once
\* gives; a step that changes an operation's type is exactly one
\* conversion of it, and a converted operation stays converted.
C27_ConvertIdempotent ==
    [][\A o \in Ops :
          LET tx == OpRecord(o)
          IN /\ ConvertToClaimable(ConvertToClaimable(tx)) = ConvertToClaimable(tx)
             /\ ConvertToClaimable(tx) = [amount |-> tx.amount, type |-> "claimable_balance",
                                          movedToEnd |-> tx.movedToEnd]
             /\ opType'[o] # opType[o] => OpRecord(o)' = ConvertToClaimable(tx)
             /\ opType[o] = "claimable_balance" => opType'[o] = "claimable_balance"]_vars

\* a converted operation stayed in its batch and is at the gateway again,
\* where op_no_trust converts it a second time
C27_ConvertedAtGateway ==
    /\ sender.pc = "send"
    /\ sender.opr >= 1
    /\ \E i \in DOMAIN sender.current : opType[sender.current[i]] = "claimable_balance"

\* sendTransactions has been called and has not returned
Running == sender.pc \in {"poll", "paused", "send", "sendLarge"}

\* C28: a call of sendTransactions returns, whatever the gateway answers.
C28_SendTerminates == Running ~> (sender.pc = "returned")

\* a call has returned after retries, a requeue at the tail, a promotion to
\* invalid and more than one outer iteration
C28_ReturnedAfterRecovery ==
    /\ sender.pc = "returned"
    /\ sender.round >= 2
    /\ sender.bad >= 1
    /\ sender.tail # <<>>
    /\ sender.promoted # {}

\* the step leaves the inner loop: the outer loop takes the next slice or
\* the call returns success
OuterEnd ==
    /\ Running
    /\ \/ sender'.round = sender.round + 1
       \/ sender'.pc = "returned" /\ sender'.success

\* C29 as stated: transactionsLeft is strictly shorter at the end of every
\* outer iteration than at its start.
C29_StrictlyShorter == [][OuterEnd => Len(sender'.left) < sender.start]_vars

\* C29: transactionsLeft is never longer at the end of an outer iteration
\* than at its start, and it is as long only when every operation of the
\* slice was pushed to the tail during the iteration, each for its one time.
C29_ShorterOrAllMoved ==
    [][OuterEnd =>
          /\ Len(sender'.left) <= sender.start
          /\ Len(sender'.left) = sender.start =>
                 /\ Len(sender'.tail) - sender.startTail = sender.orig
                 /\ \A i \in DOMAIN sender'.left :
                        i > Len(sender'.left) - sender.orig => movedToEnd'[sender'.left[i]]]_vars

\* a second outer iteration has begun with the list as long as the input
C29_SecondRoundSameLength ==
    /\ sender.round = 2
    /\ Len(sender.left) = Cardinality(sender.input)

\* C30: whenever sendTransactions is about to submit or to remove by index,
\* currentBatch is a prefix of transactionsLeft: the same operation at
\* every index of currentBatch, also after oversize splits and requeues.
C30_CurrentIsPrefix ==
    Running => /\ Len(sender.current) <= Len(sender.left)
               /\ \A i \in DOMAIN sender.current : sender.current[i] = sender.left[i]

\* a submission in the first outer iteration after an operation of the
\* slice was requeued at the tail, with operations beyond the slice
C30_SubmitAfterRequeue ==
    /\ AtGateway
    /\ sender.round = 1
    /\ sender.tail # <<>>
    /\ Len(sender.left) > Len(sender.current) + Len(sender.tail)

\* the step in which operationErrorRetry reaches MAX_OPERATION_RETRIES: the
\* answer removes nothing and the inner loop is left
ExhaustStep ==
    /\ AtGateway
    /\ sender.opr = MAX_OPERATION_RETRIES - 1
    /\ OuterEnd
    /\ sender'.invalid = sender.invalid
    /\ sender'.tail = sender.tail
    /\ sender'.sent = sender.sent

\* the operations that a step takes out of transactionsLeft
Removed == SeqToSet(sender.left) \ SeqToSet(sender'.left)

\* C31: when operationErrorRetry reaches MAX_OPERATION_RETRIES the sender
\* removes from transactionsLeft exactly the operations of currentBatch:
\* requeued operations and operations of later slices stay.
C31_SkipsExactlyCurrent == [][ExhaustStep => Removed = SeqToSet(sender.current)]_vars

\* the gateway accepts the submission of the whole currentBatch
BatchAccepted == sender.pc = "send" /\ sender'.sent # sender.sent

\* C32: when the submission of currentBatch succeeds, exactly the submitted
\* operations leave transactionsLeft, also when currentBatch had shrunk
\* before through an oversize split or index removals.
C32_RemovesExactlySubmitted ==
    [][BatchAccepted =>
          /\ Removed = SeqToSet(sender.current)
          /\ Len(sender'.left) = Len(sender.left) - Len(sender.current)
          /\ sender'.sent = sender.sent \cup SeqToSet(sender.current)]_vars

\* of three operations the first slice lost one as invalid and had the
\* other accepted; the third is still in transactionsLeft
C32_AcceptedAfterShrink ==
    /\ sender.round = 2
    /\ Cardinality(sender.input) = 3
    /\ Cardinality(sender.invalid) = 1
    /\ Cardinality(sender.sent) = 1
    /\ sender.tail = <<>>
    /\ Len(sender.left) = 1

\* a step of the inner loop that takes operations out of currentBatch and
\* goes on with the rest: invalid, requeued, or sent alone as oversize
ProgressStep ==
    /\ AtGateway
    /\ sender'.pc = "poll"
    /\ sender'.round = sender.round
    /\ Len(sender'.current) < Len(sender.current)

\* C34: after a step that removes an operation from currentBatch, both
\* operationErrorRetry and badResponseRetry are 0.
C34_CountersResetOnProgress ==
    [][ProgressStep => sender'.opr = 0 /\ sender'.bad = 0]_vars

\* a step of a sender that finds sending stopped, or that ends its wait
PauseStep == sender'.pc = "paused" \/ sender.pc = "paused"

\* C33: while sending is stopped sendTransactions submits nothing, and the
\* wait changes neither retry counter nor the batch, for any number of
\* reads; it goes on from the settings read with the same locals.
C33_PauseKeepsCounters ==
    [][PauseStep =>
          /\ sender'.pc \in {"paused", "poll"}
          /\ sender'.bad = sender.bad
          /\ sender'.opr = sender.opr
          /\ sender'.current = sender.current
          /\ sender'.left = sender.left
          /\ attempted' = attempted
          /\ nSubmitted' = nSubmitted]_vars

\* stopped while both counters stand above 0
C33_PausedWithCounters ==
    /\ sender.pc = "paused"
    /\ sender.bad >= 1
    /\ sender.opr >= 1

\* C40: at every suspension point of the TransactionQueue, an active queue
\* that holds an item has processing = true and a process() loop running.
C40_ActiveItemsHaveWorker ==
    (tActive /\ tQueue # <<>>) => (tProcessing /\ tLoops >= 1)

\* an item was appended while the callback of the item before it had
\* returned and process() had not yet resumed
C40_AppendedWhileFinishing ==
    /\ tActive
    /\ tQueue # <<>>
    /\ worker.pc = "callback"
    /\ sender.pc = "returned"
    /\ sender.success
    /\ \A i \in DOMAIN tQueue : tQueue[i].retryCount = 0

\* the codes of the logged error, and the indices the table keeps in the
\* slice, declares invalid, requeues at the tail
Code(i) == lastError.ops[i].code
Fixed(i) == lastError.ops[i].fixed
TableInvalid ==
    {i \in DOMAIN lastError.ops :
        \/ Code(i) \in {"op_malformed", "op_line_full"}
        \/ Code(i) = "op_src_no_trust" /\ ~Fixed(i)
        \/ Code(i) \notin {"op_success", "op_no_trust", "op_malformed", "op_line_full",
                          "op_src_no_trust", "op_underfunded"}}
TableMoved == {i \in DOMAIN lastError.ops : Code(i) = "op_underfunded" /\ ~Fixed(i)}
TableKept == DOMAIN lastError.ops \ (TableInvalid \cup TableMoved)
TableConverted == {i \in DOMAIN lastError.ops : Code(i) = "op_no_trust"}
\* the slice 1..n as it was submitted
Slice == [i \in 1..Cardinality(sender.input) |-> i]

\* C35: for every error of the gateway the plan is the one of the table:
\* errors without operation codes are transient retries that leave the
\* slice alone; with operation codes, op_success keeps the operation,
\* op_no_trust keeps it converted, op_malformed and op_line_full make it
\* invalid, op_src_no_trust and op_underfunded keep it when the repair
\* works and make it invalid or requeue it when not, other codes make it
\* invalid; the next submission holds the kept operations in order.
C35_PlanOfTable ==
    lastError # NoError =>
        IF lastError.kind # "operations"
        THEN /\ sender.bad = 1 /\ sender.opr = 0
             /\ sender.current = Slice /\ sender.left = Slice
             /\ sender.invalid = {} /\ sender.tail = <<>>
             /\ \A o \in sender.input : opType[o] = "payment"
        ELSE /\ sender.bad = 0
             /\ sender.invalid = TableInvalid
             /\ SeqToSet(sender.tail) = TableMoved
             /\ \A o \in sender.input : movedToEnd[o] <=> o \in TableMoved
             /\ \A o \in sender.input :
                    opType[o] = IF o \in TableConverted THEN "claimable_balance" ELSE "payment"
             /\ sender.left = SelectSeq(Slice, LAMBDA o : o \in TableKept) \o sender.tail
             /\ IF TableKept # {}
                THEN /\ sender.round = 1
                     /\ sender.current = SelectSeq(Slice, LAMBDA o : o \in TableKept)
                     /\ sender.opr = IF TableKept = DOMAIN lastError.ops THEN 1 ELSE 0
                ELSE IF TableMoved # {} THEN sender.round = 2
                     ELSE sender.pc = "returned" /\ sender.success

\* the next submission after the codes op_success, op_no_trust,
\* op_malformed, op_success, op_underfunded with the refill done: the
\* operations 1, 2, 4, 5 with operation 2 converted
C35_FourOfFiveResubmitted ==
    /\ lastError.kind = "operations"
    /\ [i \in DOMAIN lastError.ops |-> Code(i)] =
          <<"op_success", "op_no_trust", "op_malformed", "op_success", "op_underfunded">>
    /\ Fixed(5)
    /\ sender.pc = "send"
    /\ sender.current = <<1, 2, 4, 5>>
    /\ opType[2] = "claimable_balance"
    /\ \A o \in {1, 4, 5} : opType[o] = "payment"

\* the rows of the logged refresh: their ids, the ids with a well-formed
\* secret, the ids that had a queue
RowIds == SeqToSet(lastRefresh.ids)
WellFormedIds == {lastRefresh.ids[i] : i \in {j \in DOMAIN lastRefresh.ids : lastRefresh.secrets[j] = "valid"}}
KeysBefore == SeqToSet(lastRefresh.before)

\* C37 as stated: after a refresh the keys of the map are the ids of the
\* active distributors with a well-formed secret.
C37_KeysAreWellFormedIds == lastRefresh.seen => SeqToSet(queues) = WellFormedIds

\* C37: after a refresh the map holds, in their old order, the queues whose
\* id is still active, whatever their secret is now, followed by a queue for
\* every other active id with a well-formed secret, in row order; rows with
\* an empty or malformed secret are passed over.
C37_KeptThenWellFormedNew ==
    lastRefresh.seen =>
        queues = SelectSeq(lastRefresh.before, LAMBDA q : q \in RowIds)
                 \o SelectSeq(lastRefresh.ids, LAMBDA q : q \in WellFormedIds \ KeysBefore)

\* a refresh kept the queue whose worker is running although its row now
\* has a malformed secret, passed over or created the other id
C37_KeptWithMalformedSecret ==
    /\ lastRefresh.seen
    /\ holder.pc # "none" /\ ~holder.evicted
    /\ holder.qid \in KeysBefore \cap RowIds
    /\ holder.qid \notin WellFormedIds
    /\ holder.qid \in SeqToSet(queues)
    /\ RowIds \ KeysBefore # {}

\* the worker of a queue deleted from the map takes another item of it
EvictedTakes ==
    /\ holder.evicted /\ holder'.evicted
    /\ holder.pc = "sleep" /\ holder'.pc = "gateway"

\* updateQueues completes in this step
RefreshStep == lastRefresh'.seen /\ (lastRefresh' # lastRefresh \/ queues' # queues)

\* the keys the refresh of this step finds absent from the rows
Absent == SeqToSet(queues) \ SeqToSet(lastRefresh'.ids)

CarriedNow == {o \in DOMAIN itemIssuers : itemIssuers[o] = NoArray /\ itemIssuers'[o] # NoArray}
\* the issuers the QueueItem of operation o holds
IssuersOf(o) == keypairArrays[itemIssuers[o]]

\* C38: once a periodic refresh has completed after the issuer secret of the
\* settings was written, the batches admitted carry the issuers of that
\* secret.
C38_IssuersFollowSettings ==
    [][settings.refreshed =>
          \A o \in CarriedNow : keypairArrays'[itemIssuers'[o]] = LoadIssuers(settings.issuerSecret)]_vars

\* C39: the issuers a batch carries are fixed at admission: no step changes
\* the issuers of a batch that has been admitted.
C39_IssuersFixedAtAdmission ==
    [][\A o \in DOMAIN itemIssuers :
          itemIssuers[o] # NoArray =>
              /\ itemIssuers'[o] = itemIssuers[o]
              /\ keypairArrays'[itemIssuers'[o]] = IssuersOf(o)]_vars

\* a batch admitted before updateIssuers assigned the field is in flight
\* after it, with the issuers it was admitted with
C39_InFlightAcrossUpdate ==
    /\ initPc = "done"
    /\ holder.pc = "gateway"
    /\ keypairArrays[issuers] # <<>>
    /\ \E o \in InFlightOps : itemIssuers[o] # issuers /\ IssuersOf(o) = <<>>

====
